---- MODULE Spec2Model ----
\* ICD-10 retrieval service of OpenEHR-MCP (src/src/medical_coding.py):
\* MedicalCodingService with its text embedder, its optional LLM query
\* expander and its flat and grouped searches against a vector store.
\*
\* Texts are finite sequences of one-character strings.  Similarity scores
\* are integers: the score of a point is the inner product of the query
\* vector and the point's vector, a fixed-point stand-in for the store's
\* cosine similarity that keeps what the search depends on (a total order
\* of the points per query, with ties).
EXTENDS Integers, Sequences, FiniteSets, TLC

VARIABLES svc, store, pc, reply

vars == <<svc, store, pc, reply>>

-----------------------------------------------------------------------------
\* Bounds of the model

MaxTextLen == 1

MaxRespLen == 3

MaxLimit == 2

-----------------------------------------------------------------------------
\* Program constants

DefaultLimit == 5

MaxTokens == 128

-----------------------------------------------------------------------------
\* Characters and texts

SP == " "

NL == "\n"

DASH == "-"

\* stands for the bullet character U+2022
BULLET == "*"

DOT == "."

\* characters str.strip() removes when called without an argument
Whitespace == {SP, NL}

\* the argument of q.strip('-* ') with the bullet written as BULLET
BulletChars == {DASH, BULLET, SP}

TextChars == {"a", SP}

RespChars == {"a", "b", DASH, NL}

SeqsUpTo(S, n) == UNION {[1..k -> S] : k \in 0..n}

Texts == SeqsUpTo(TextChars, MaxTextLen)

Responses == SeqsUpTo(RespChars, MaxRespLen)

Limits == (-1)..MaxLimit

Take(s, n) == IF n >= Len(s) THEN s ELSE SubSeq(s, 1, n)

RECURSIVE LStrip(_, _)
LStrip(s, cs) ==
    IF Len(s) > 0 /\ Head(s) \in cs THEN LStrip(Tail(s), cs) ELSE s

RECURSIVE RStrip(_, _)
RStrip(s, cs) ==
    IF Len(s) > 0 /\ s[Len(s)] \in cs
    THEN RStrip(SubSeq(s, 1, Len(s) - 1), cs)
    ELSE s

Strip(s, cs) == RStrip(LStrip(s, cs), cs)

\* str.split(sep): the pieces between separators, empty pieces included
RECURSIVE SplitAcc(_, _, _)
SplitAcc(s, sep, cur) ==
    IF Len(s) = 0 THEN <<cur>>
    ELSE IF Head(s) = sep
         THEN <<cur>> \o SplitAcc(Tail(s), sep, <<>>)
         ELSE SplitAcc(Tail(s), sep, Append(cur, Head(s)))

Split(s, sep) == SplitAcc(s, sep, <<>>)

RECURSIVE Count(_, _)
Count(s, c) ==
    IF Len(s) = 0 THEN 0
    ELSE (IF Head(s) = c THEN 1 ELSE 0) + Count(Tail(s), c)

RECURSIVE Concat(_)
Concat(ss) == IF Len(ss) = 0 THEN <<>> ELSE Head(ss) \o Concat(Tail(ss))

-----------------------------------------------------------------------------
\* Outcomes of calls: a normal return with a value, or a raised exception

Return(v) == [ok |-> TRUE, exc |-> "", val |-> v]

Raise(e) == [ok |-> FALSE, exc |-> e, val |-> <<>>]

\* what one sub-query's backends do: answer, or fail in the embedding model,
\* or fail in the store (unreachable, timed out, malformed response)
FaultModes == {"ok", "embed", "query"}

-----------------------------------------------------------------------------
\* Text Embedder

\* the embedding dimensions: one per vocabulary entry
Vocab == <<"a", "b">>

\* tokenizer(text, truncation=True, max_length=128)
Tokenize(text) == Take(text, MaxTokens)

\* last_hidden_state.mean(dim=1), as the per-dimension token counts
Pool(tokens) == [i \in 1..Len(Vocab) |-> Count(tokens, Vocab[i])]

text_to_embedding(text, fault) ==
    IF Len(text) = 0 THEN Raise("ValueError")
    ELSE LET t == Strip(text, Whitespace)
         IN  IF Len(t) = 0 THEN Raise("ValueError")
             ELSE IF fault = "embed" THEN Raise("RuntimeError")
             ELSE Return(Pool(Tokenize(t)))

-----------------------------------------------------------------------------
\* Vector store

RECURSIVE Dot(_, _)
Dot(u, v) ==
    IF Len(u) = 0 \/ Len(v) = 0 THEN 0
    ELSE Head(u) * Head(v) + Dot(Tail(u), Tail(v))

PayloadGet(payload, key, default) ==
    IF key \in DOMAIN payload THEN payload[key] ELSE default

\* the points of S in the store's ranking for vec: by score descending,
\* equal scores by ascending id; at most k of them
RECURSIVE TopK(_, _, _)
TopK(S, vec, k) ==
    IF k <= 0 \/ S = {} THEN <<>>
    ELSE LET best == CHOOSE p \in S : \A q \in S :
                        \/ Dot(vec, p.vector) > Dot(vec, q.vector)
                        \/ /\ Dot(vec, p.vector) = Dot(vec, q.vector)
                           /\ p.id <= q.id
         IN  <<[id |-> best.id, score |-> Dot(vec, best.vector),
                payload |-> best.payload]>> \o TopK(S \ {best}, vec, k - 1)

query_points(st, vec, limit, fault) ==
    IF fault = "query" THEN Raise("ResponseHandlingException")
    ELSE IF ~st.exists THEN Raise("UnexpectedResponse")
    ELSE IF Len(vec) # st.dim THEN Raise("UnexpectedResponse")
    ELSE Return(TopK(st.points, vec, limit))

Point(i, c, s, v) ==
    [id |-> i, vector |-> v, payload |-> [code |-> c, short |-> s, long |-> s]]

SeededStore ==
    [exists |-> TRUE, dim |-> 2,
     points |-> {Point(1, "A00", "Cholera", <<1, 0>>),
                 Point(2, "E66", "Obesity", <<0, 1>>),
                 Point(3, "A00", "Cholera", <<1, 1>>),
                 Point(4, "A01", "Typhoid", <<2, 1>>),
                 Point(5, "E66", "Obesity", <<1, 2>>),
                 Point(6, "A09", "Gastroenteritis", <<1, 0>>)}]

MissingStore == [exists |-> FALSE, dim |-> 2, points |-> {}]

Stores == {SeededStore, MissingStore}

-----------------------------------------------------------------------------
\* Query Expander

LlmOutcomes ==
    {[ok |-> FALSE, content |-> <<>>]} \cup
    {[ok |-> TRUE, content |-> r] : r \in Responses}

\* q.strip('-* ').strip().rstrip('.')
ParseLine(q) == RStrip(Strip(Strip(q, BulletChars), Whitespace), {DOT})

NonBlank(q) == Len(Strip(q, Whitespace)) > 0

ParseResponse(resp) ==
    LET kept == SelectSeq(Split(resp, NL), NonBlank)
    IN  [i \in 1..Len(kept) |-> ParseLine(kept[i])]

\* variant: without an LLM there is no query at all
refine_EmptyWithoutLlm(llm, clinical_text, out) ==
    IF ~llm THEN <<>>
    ELSE IF Len(clinical_text) = 0 THEN <<>>
    ELSE IF ~out.ok
         THEN (IF Len(clinical_text) > 0 THEN <<clinical_text>> ELSE <<>>)
    ELSE LET icd_response == Strip(out.content, Whitespace)
         IN  IF Len(icd_response) = 0 THEN <<clinical_text>>
             ELSE LET queries == ParseResponse(icd_response)
                  IN  IF Len(queries) = 0 THEN <<clinical_text>>
                      ELSE queries

\* variant: a failed LLM call yields no query at all
refine_EmptyOnFailure(llm, clinical_text, out) ==
    IF ~llm THEN (IF Len(clinical_text) > 0 THEN <<clinical_text>> ELSE <<>>)
    ELSE IF Len(clinical_text) = 0 THEN <<>>
    ELSE IF ~out.ok THEN <<>>
    ELSE LET icd_response == Strip(out.content, Whitespace)
         IN  IF Len(icd_response) = 0 THEN <<clinical_text>>
             ELSE LET queries == ParseResponse(icd_response)
                  IN  IF Len(queries) = 0 THEN <<clinical_text>>
                      ELSE queries

\* variant: no fallback to the original text after a response
refine_NoEmptyResponseFallback(llm, clinical_text, out) ==
    IF ~llm THEN (IF Len(clinical_text) > 0 THEN <<clinical_text>> ELSE <<>>)
    ELSE IF Len(clinical_text) = 0 THEN <<>>
    ELSE IF ~out.ok
         THEN (IF Len(clinical_text) > 0 THEN <<clinical_text>> ELSE <<>>)
    ELSE ParseResponse(Strip(out.content, Whitespace))

refine_clinical_text_with_gemini(llm, clinical_text, out) ==
    IF ~llm THEN (IF Len(clinical_text) > 0 THEN <<clinical_text>> ELSE <<>>)
    ELSE IF Len(clinical_text) = 0 THEN <<>>
    ELSE IF ~out.ok
         THEN (IF Len(clinical_text) > 0 THEN <<clinical_text>> ELSE <<>>)
    ELSE LET icd_response == Strip(out.content, Whitespace)
         IN  IF Len(icd_response) = 0 THEN <<clinical_text>>
             ELSE LET queries == ParseResponse(icd_response)
                  IN  IF Len(queries) = 0 THEN <<clinical_text>>
                      ELSE queries

\* the calls refine_clinical_text_with_gemini makes to the LLM
RefineCalls(llm, clinical_text) ==
    IF llm /\ Len(clinical_text) > 0
    THEN <<[fn |-> "llm.invoke", arg |-> clinical_text, limit |-> 0]>>
    ELSE <<>>

-----------------------------------------------------------------------------
\* Retrieval: search_icd_codes and search_icd_codes_detailed

NoneValue == "None"

Call(f, a, l) == [fn |-> f, arg |-> a, limit |-> l]

\* variant: a limit below 1 is clamped to 1
EffectiveLimit_ClampToOne(limit) == IF limit < 1 THEN 1 ELSE limit

\* if limit < 1: limit = 5
EffectiveLimit(limit) == IF limit < 1 THEN DefaultLimit ELSE limit

\* if use_gemini_refinement and self.llm: refine, else [clinical_text]
Queries(llm, clinical_text, use_gemini_refinement, out) ==
    IF use_gemini_refinement /\ llm
    THEN refine_clinical_text_with_gemini(llm, clinical_text, out)
    ELSE <<clinical_text>>

QueriesCalls(llm, clinical_text, use_gemini_refinement) ==
    IF use_gemini_refinement /\ llm
    THEN RefineCalls(llm, clinical_text)
    ELSE <<>>

FormatHit(query_text, point) ==
    [query |-> query_text,
     code |-> PayloadGet(point.payload, "code", "N/A"),
     description |-> PayloadGet(point.payload, "short", "N/A"),
     score |-> point.score]

\* variant: the grouped search rounds the score
FormatCode_RoundedScore(point) ==
    [code |-> PayloadGet(point.payload, "code", "N/A"),
     description |-> PayloadGet(point.payload, "short", "N/A"),
     score |-> (point.score \div 2) * 2]

FormatCode(point) ==
    [code |-> PayloadGet(point.payload, "code", "N/A"),
     description |-> PayloadGet(point.payload, "short", "N/A"),
     score |-> point.score]

\* variant: the store is asked for one point more than the limit
SubQuery_OverFetch(st, queries, limit, faults, i) ==
    LET e == text_to_embedding(queries[i], faults[i])
        ecall == Call("text_to_embedding", queries[i], 0)
        r == query_points(st, e.val, limit + 1, faults[i])
        qcall == Call("query_points", e.val, limit + 1)
    IN  IF ~e.ok
        THEN [calls |-> <<ecall>>, status |-> "embed_error",
              error |-> e.exc, points |-> <<>>]
        ELSE IF ~r.ok
        THEN [calls |-> <<ecall, qcall>>, status |-> "query_error",
              error |-> r.exc, points |-> <<>>]
        ELSE [calls |-> <<ecall, qcall>>, status |-> "ok",
              error |-> NoneValue, points |-> r.val]

\* one pass of the loop body for sub-query i: the calls it makes, how it
\* ends and the points the store returned
SubQuery(st, queries, limit, faults, i) ==
    LET e == text_to_embedding(queries[i], faults[i])
        ecall == Call("text_to_embedding", queries[i], 0)
        r == query_points(st, e.val, limit, faults[i])
        qcall == Call("query_points", e.val, limit)
    IN  IF ~e.ok
        THEN [calls |-> <<ecall>>, status |-> "embed_error",
              error |-> e.exc, points |-> <<>>]
        ELSE IF ~r.ok
        THEN [calls |-> <<ecall, qcall>>, status |-> "query_error",
              error |-> r.exc, points |-> <<>>]
        ELSE [calls |-> <<ecall, qcall>>, status |-> "ok",
              error |-> NoneValue, points |-> r.val]

\* variant: the first failing sub-query ends the loop (break for continue)
RECURSIVE SearchLoop_Break(_, _, _, _, _)
SearchLoop_Break(st, queries, limit, faults, i) ==
    IF i > Len(queries)
    THEN [all_results |-> <<>>, calls |-> <<>>, status |-> <<>>]
    ELSE LET sq == SubQuery(st, queries, limit, faults, i)
             rest == IF sq.status = "ok"
                     THEN SearchLoop_Break(st, queries, limit, faults, i + 1)
                     ELSE [all_results |-> <<>>, calls |-> <<>>, status |-> <<>>]
         IN  [all_results |->
                  [k \in 1..Len(sq.points) |-> FormatHit(queries[i], sq.points[k])]
                  \o rest.all_results,
              calls |-> sq.calls \o rest.calls,
              status |-> <<sq.status>> \o rest.status]

\* for query_text in queries: try ... except Exception: continue
RECURSIVE SearchLoop(_, _, _, _, _)
SearchLoop(st, queries, limit, faults, i) ==
    IF i > Len(queries)
    THEN [all_results |-> <<>>, calls |-> <<>>, status |-> <<>>]
    ELSE LET sq == SubQuery(st, queries, limit, faults, i)
             rest == SearchLoop(st, queries, limit, faults, i + 1)
         IN  [all_results |->
                  [k \in 1..Len(sq.points) |-> FormatHit(queries[i], sq.points[k])]
                  \o rest.all_results,
              calls |-> sq.calls \o rest.calls,
              status |-> <<sq.status>> \o rest.status]

\* variant: x goes in front of the elements of equal score
RECURSIVE InsertDesc_TiesFirst(_, _)
InsertDesc_TiesFirst(sorted, x) ==
    IF Len(sorted) = 0 THEN <<x>>
    ELSE IF Head(sorted).score > x.score
         THEN <<Head(sorted)>> \o InsertDesc_TiesFirst(Tail(sorted), x)
         ELSE <<x>> \o sorted

\* x goes behind every element whose score is not smaller
RECURSIVE InsertDesc(_, _)
InsertDesc(sorted, x) ==
    IF Len(sorted) = 0 THEN <<x>>
    ELSE IF Head(sorted).score >= x.score
         THEN <<Head(sorted)>> \o InsertDesc(Tail(sorted), x)
         ELSE <<x>> \o sorted

RECURSIVE InsertAsc(_, _)
InsertAsc(sorted, x) ==
    IF Len(sorted) = 0 THEN <<x>>
    ELSE IF Head(sorted).score <= x.score
         THEN <<Head(sorted)>> \o InsertAsc(Tail(sorted), x)
         ELSE <<x>> \o sorted

\* variant: the sort without reverse=True
RECURSIVE SortByScoreDesc_Ascending(_)
SortByScoreDesc_Ascending(s) ==
    IF Len(s) = 0 THEN <<>>
    ELSE InsertAsc(SortByScoreDesc_Ascending(SubSeq(s, 1, Len(s) - 1)), s[Len(s)])

\* all_results.sort(key=lambda x: x['score'], reverse=True)
RECURSIVE SortByScoreDesc(_)
SortByScoreDesc(s) ==
    IF Len(s) = 0 THEN <<>>
    ELSE InsertDesc(SortByScoreDesc(SubSeq(s, 1, Len(s) - 1)), s[Len(s)])

RECURSIVE FirstPerCode(_, _)
FirstPerCode(s, seen) ==
    IF Len(s) = 0 THEN <<>>
    ELSE IF Head(s).code \in seen THEN FirstPerCode(Tail(s), seen)
    ELSE <<Head(s)>> \o FirstPerCode(Tail(s), seen \cup {Head(s).code})

\* variant: only the best hit of each code is kept
Truncate_DedupByCode(all_results, limit, queries) ==
    Take(FirstPerCode(all_results, {}), limit * Len(queries))

\* all_results[:limit * len(queries)]
Truncate(all_results, limit, queries) == Take(all_results, limit * Len(queries))

\* variant: a sub-query the store rejected makes the whole call raise
SearchReply_FailOnQueryError(o, c, q, s, l) ==
    IF \E i \in 1..Len(s) : s[i] = "query_error"
    THEN [ok |-> FALSE, exc |-> "UnexpectedResponse", val |-> <<>>,
          calls |-> c, queries |-> q, status |-> s, limit |-> l]
    ELSE [ok |-> o.ok, exc |-> o.exc, val |-> o.val,
          calls |-> c, queries |-> q, status |-> s, limit |-> l]

SearchReply(o, c, q, s, l) ==
    [ok |-> o.ok, exc |-> o.exc, val |-> o.val,
     calls |-> c, queries |-> q, status |-> s, limit |-> l]

\* variant: a call none of whose sub-queries could be searched raises
search_icd_codes_RaiseOnTotalFailure(llm, st, clinical_text, limit, use_gemini_refinement, out, faults) ==
    IF Len(clinical_text) = 0
    THEN SearchReply(Raise("ValueError"), <<>>, <<>>, <<>>, limit)
    ELSE LET lim == EffectiveLimit(limit)
             queries == Queries(llm, clinical_text, use_gemini_refinement, out)
             pre == QueriesCalls(llm, clinical_text, use_gemini_refinement)
         IN  IF Len(queries) = 0
             THEN SearchReply(Return(<<>>), pre, queries, <<>>, lim)
             ELSE LET loop == SearchLoop(st, queries, lim, faults, 1)
                      final_results ==
                          Truncate(SortByScoreDesc(loop.all_results), lim, queries)
                  IN  IF \A i \in 1..Len(loop.status) : loop.status[i] # "ok"
                      THEN SearchReply(Raise("RuntimeError"), pre \o loop.calls,
                                       queries, loop.status, lim)
                      ELSE SearchReply(Return(final_results), pre \o loop.calls,
                                       queries, loop.status, lim)

search_icd_codes(llm, st, clinical_text, limit, use_gemini_refinement, out, faults) ==
    IF Len(clinical_text) = 0
    THEN SearchReply(Raise("ValueError"), <<>>, <<>>, <<>>, limit)
    ELSE LET lim == EffectiveLimit(limit)
             queries == Queries(llm, clinical_text, use_gemini_refinement, out)
             pre == QueriesCalls(llm, clinical_text, use_gemini_refinement)
         IN  IF Len(queries) = 0
             THEN SearchReply(Return(<<>>), pre, queries, <<>>, lim)
             ELSE LET loop == SearchLoop(st, queries, lim, faults, 1)
                      final_results ==
                          Truncate(SortByScoreDesc(loop.all_results), lim, queries)
                  IN  SearchReply(Return(final_results), pre \o loop.calls,
                                  queries, loop.status, lim)

\* variant: a failing sub-query gets no entry (continue, as in the flat search)
RECURSIVE DetailedLoop_SkipFailed(_, _, _, _, _)
DetailedLoop_SkipFailed(st, queries, limit, faults, i) ==
    IF i > Len(queries)
    THEN [results_by_query |-> <<>>, calls |-> <<>>, status |-> <<>>]
    ELSE LET sq == SubQuery(st, queries, limit, faults, i)
             rest == DetailedLoop_SkipFailed(st, queries, limit, faults, i + 1)
         IN  [results_by_query |->
                  (IF sq.status = "ok"
                   THEN <<[query |-> queries[i],
                           codes |-> [k \in 1..Len(sq.points) |->
                                         FormatCode(sq.points[k])],
                           error |-> sq.error]>>
                   ELSE <<>>)
                  \o rest.results_by_query,
              calls |-> sq.calls \o rest.calls,
              status |-> <<sq.status>> \o rest.status]

RECURSIVE DetailedLoop(_, _, _, _, _)
DetailedLoop(st, queries, limit, faults, i) ==
    IF i > Len(queries)
    THEN [results_by_query |-> <<>>, calls |-> <<>>, status |-> <<>>]
    ELSE LET sq == SubQuery(st, queries, limit, faults, i)
             rest == DetailedLoop(st, queries, limit, faults, i + 1)
         IN  [results_by_query |->
                  <<[query |-> queries[i],
                     codes |-> [k \in 1..Len(sq.points) |-> FormatCode(sq.points[k])],
                     error |-> sq.error]>>
                  \o rest.results_by_query,
              calls |-> sq.calls \o rest.calls,
              status |-> <<sq.status>> \o rest.status]

Detailed(text, queries, by_query, err) ==
    [original_text |-> text, refined_queries |-> queries,
     results_by_query |-> by_query, error |-> err]

search_icd_codes_detailed(llm, st, clinical_text, limit, use_gemini_refinement, out, faults) ==
    IF Len(clinical_text) = 0
    THEN SearchReply(Raise("ValueError"), <<>>, <<>>, <<>>, limit)
    ELSE LET lim == EffectiveLimit(limit)
             queries == Queries(llm, clinical_text, use_gemini_refinement, out)
             pre == QueriesCalls(llm, clinical_text, use_gemini_refinement)
         IN  IF Len(queries) = 0
             THEN SearchReply(
                      Return(Detailed(clinical_text, queries, <<>>, "No queries to search")),
                      pre, queries, <<>>, lim)
             ELSE LET loop == DetailedLoop(st, queries, lim, faults, 1)
                  IN  SearchReply(
                          Return(Detailed(clinical_text, queries,
                                          loop.results_by_query, NoneValue)),
                          pre \o loop.calls, queries, loop.status, lim)

-----------------------------------------------------------------------------
\* The service object and its callers

NoService == [built |-> FALSE, llm |-> FALSE]

NoReply == [op |-> "none"]

\* the outcome recorded when the LLM is not consulted
NoLlmCall == [ok |-> FALSE, content |-> <<>>]

LlmChoices(consulted) == IF consulted THEN LlmOutcomes ELSE {NoLlmCall}

Init ==
    /\ svc = NoService
    /\ store \in Stores
    /\ pc = "idle"
    /\ reply = NoReply

\* the fault patterns a call can meet: one mode per sub-query
FaultPatterns(clinical_text, use_gemini_refinement, out) ==
    [1..Len(Queries(svc.llm, clinical_text, use_gemini_refinement, out))
        -> FaultModes]

\* variant: a missing collection is created at construction
Construct_CreateMissing ==
    /\ pc = "idle"
    /\ ~svc.built
    /\ \E model_ok, reachable, gemini_api_key, gemini_available, llm_ok \in BOOLEAN :
        IF ~model_ok
        THEN /\ svc' = svc
             /\ reply' = [op |-> "__init__", res |-> Raise("OSError"),
                          calls |-> <<>>]
        ELSE IF ~reachable
        THEN /\ svc' = svc
             /\ reply' = [op |-> "__init__", res |-> Raise("ConnectionError"),
                          calls |-> <<Call("get_collections", <<>>, 0)>>]
        ELSE /\ svc' = [built |-> TRUE,
                        llm |-> gemini_api_key /\ gemini_available /\ llm_ok]
             /\ reply' = [op |-> "__init__", res |-> Return(<<>>),
                          calls |-> <<Call("get_collections", <<>>, 0),
                                      Call("get_collections", <<>>, 0)>>]
    /\ pc' = "returned"
    /\ store' = IF svc'.built /\ ~store.exists
                 THEN [store EXCEPT !.exists = TRUE]
                 ELSE store

\* MedicalCodingService.__init__
Construct ==
    /\ pc = "idle"
    /\ ~svc.built
    /\ \E model_ok, reachable, gemini_api_key, gemini_available, llm_ok \in BOOLEAN :
        IF ~model_ok
        THEN /\ svc' = svc
             /\ reply' = [op |-> "__init__", res |-> Raise("OSError"),
                          calls |-> <<>>]
        ELSE IF ~reachable
        THEN /\ svc' = svc
             /\ reply' = [op |-> "__init__", res |-> Raise("ConnectionError"),
                          calls |-> <<Call("get_collections", <<>>, 0)>>]
        ELSE /\ svc' = [built |-> TRUE,
                        llm |-> gemini_api_key /\ gemini_available /\ llm_ok]
             /\ reply' = [op |-> "__init__", res |-> Return(<<>>),
                          calls |-> <<Call("get_collections", <<>>, 0),
                                      Call("get_collections", <<>>, 0)>>]
    /\ pc' = "returned"
    /\ UNCHANGED store

RefineClinicalText ==
    /\ pc = "idle"
    /\ svc.built
    /\ \E clinical_text \in Texts :
        \E out \in LlmChoices(svc.llm /\ Len(clinical_text) > 0) :
            reply' = [op |-> "refine_clinical_text_with_gemini",
                      text |-> clinical_text, out |-> out,
                      res |-> Return(refine_clinical_text_with_gemini(
                                         svc.llm, clinical_text, out)),
                      calls |-> RefineCalls(svc.llm, clinical_text)]
    /\ pc' = "returned"
    /\ UNCHANGED <<svc, store>>

SearchIcdCodes ==
    /\ pc = "idle"
    /\ svc.built
    /\ \E clinical_text \in Texts, limit \in Limits, use_gemini_refinement \in BOOLEAN :
        \E out \in LlmChoices(use_gemini_refinement /\ svc.llm /\ Len(clinical_text) > 0) :
            \E faults \in FaultPatterns(clinical_text, use_gemini_refinement, out) :
                reply' = [op |-> "search_icd_codes",
                          text |-> clinical_text, limit |-> limit,
                          refine |-> use_gemini_refinement, out |-> out,
                          faults |-> faults,
                          res |-> search_icd_codes(svc.llm, store, clinical_text,
                                                   limit, use_gemini_refinement,
                                                   out, faults)]
    /\ pc' = "returned"
    /\ UNCHANGED <<svc, store>>

SearchIcdCodesDetailed ==
    /\ pc = "idle"
    /\ svc.built
    /\ \E clinical_text \in Texts, limit \in Limits, use_gemini_refinement \in BOOLEAN :
        \E out \in LlmChoices(use_gemini_refinement /\ svc.llm /\ Len(clinical_text) > 0) :
            \E faults \in FaultPatterns(clinical_text, use_gemini_refinement, out) :
                reply' = [op |-> "search_icd_codes_detailed",
                          text |-> clinical_text, limit |-> limit,
                          refine |-> use_gemini_refinement, out |-> out,
                          faults |-> faults,
                          res |-> search_icd_codes_detailed(
                                      svc.llm, store, clinical_text, limit,
                                      use_gemini_refinement, out, faults)]
    /\ pc' = "returned"
    /\ UNCHANGED <<svc, store>>

\* the caller takes the result (or catches the exception)
Deliver ==
    /\ pc = "returned"
    /\ pc' = "idle"
    /\ reply' = NoReply
    /\ UNCHANGED <<svc, store>>

Next ==
    \/ Construct
    \/ RefineClinicalText
    \/ SearchIcdCodes
    \/ SearchIcdCodesDetailed
    \/ Deliver

Spec == Init /\ [][Next]_vars

-----------------------------------------------------------------------------
\* Vocabulary of the properties: the call that has just returned, and what
\* each of its sub-queries met, derived from the call's arguments

Returned(op) == pc = "returned" /\ reply.op = op

Flat == Returned("search_icd_codes")

Grouped == Returned("search_icd_codes_detailed")

Blank(t) == Len(Strip(t, Whitespace)) = 0

TheQueries == Queries(svc.llm, reply.text, reply.refine, reply.out)

TheLimit == IF reply.limit < 1 THEN 5 ELSE reply.limit

Embedding(i) == text_to_embedding(TheQueries[i], reply.faults[i])

Answer(i) == query_points(store, Embedding(i).val, TheLimit, reply.faults[i])

Survives(i) == Embedding(i).ok /\ Answer(i).ok

Survivors == {i \in 1..Len(TheQueries) : Survives(i)}

HitsOf(i) ==
    IF Survives(i)
    THEN LET points == Answer(i).val
             q == TheQueries[i]
         IN  [k \in 1..Len(points) |->
                 [query |-> q,
                  code |-> points[k].payload.code,
                  description |-> points[k].payload.short,
                  score |-> points[k].score]]
    ELSE <<>>

\* the hits in the order the loop appends them
Appended == Concat([i \in 1..Len(TheQueries) |-> HitsOf(i)])

Range(s) == {s[i] : i \in 1..Len(s)}

SameBag(s, t) ==
    /\ Len(s) = Len(t)
    /\ \A i \in 1..Len(s) : Count(s, s[i]) = Count(t, s[i])

NonIncreasing(v) == \A i \in 1..(Len(v) - 1) : v[i].score >= v[i + 1].score

IsEmbedCall(c) == c.fn = "text_to_embedding"

IsQueryCall(c) == c.fn = "query_points"

CallNames(calls) == [i \in 1..Len(calls) |-> calls[i].fn]

CallArgs(calls) == [i \in 1..Len(calls) |-> calls[i].arg]

-----------------------------------------------------------------------------
C2_BlankTextRaises ==
    ((Flat \/ Grouped) /\ Blank(reply.text)) =>
        (~reply.res.ok /\ reply.res.exc = "ValueError")

\* C3: per-query failure isolation in search_icd_codes: whichever
\* sub-queries fail in their embed or index-query step, every sub-query is
\* attempted in list order, the call returns without raising, the result
\* holds exactly the hits of the surviving sub-queries, each tagged with the
\* sub-query that produced it, and with two sub-queries of which exactly one
\* fails the result has at most limit hits.
C3_FailureIsolation ==
    (Flat /\ Len(reply.text) > 0) =>
        /\ reply.res.ok
        /\ CallArgs(SelectSeq(reply.res.calls, IsEmbedCall)) = TheQueries
        /\ LET expected == Appended
            IN  SameBag(reply.res.val, expected)
        /\ (Len(TheQueries) = 2 /\ Cardinality(Survivors) = 1) =>
               Len(reply.res.val) <= TheLimit

C3_Witness ==
    /\ Flat /\ Len(TheQueries) = 2
    /\ ~Survives(1) /\ Survives(2)
    /\ Len(reply.res.val) = TheLimit
    /\ \A k \in 1..Len(reply.res.val) : reply.res.val[k].query = TheQueries[2]

\* C4: if the embed or index-query step fails for every sub-query of a
\* search_icd_codes call with valid input, the call returns an empty list
\* and raises nothing.
C4_TotalFailureReturnsEmpty ==
    (Flat /\ Len(reply.text) > 0 /\ Survivors = {}) =>
        (reply.res.ok /\ reply.res.val = <<>>)

C4_Witness ==
    /\ Flat /\ Len(TheQueries) = 2 /\ store.exists
    /\ reply.faults = <<"embed", "query">>
    /\ reply.res.ok /\ reply.res.val = <<>>

\* C5: when the generative backend is unavailable (no LLM configured, or
\* the LLM call raises or answers with an empty response),
\* search_icd_codes(text, limit, true) returns what
\* search_icd_codes(text, limit, false) returns on the same index state.
LlmUnavailable == ~svc.llm \/ ~reply.out.ok \/ Blank(reply.out.content)

\* what the backends do to the one sub-query of the unrefined call: what they
\* did to the first sub-query of the refined call
PlainFaults == IF Len(reply.faults) >= 1 THEN <<reply.faults[1]>> ELSE <<"ok">>

C5_DegradesToUnrefined ==
    (Flat /\ reply.refine /\ LlmUnavailable) =>
        LET plain == search_icd_codes(svc.llm, store, reply.text, reply.limit,
                                      FALSE, NoLlmCall, PlainFaults)
        IN  /\ reply.res.ok = plain.ok
            /\ reply.res.exc = plain.exc
            /\ reply.res.val = plain.val

C5_Witness ==
    /\ Flat /\ reply.refine /\ svc.llm /\ ~reply.out.ok
    /\ reply.res.ok /\ Len(reply.res.val) > 0

\* C6: for every limit < 1, search_icd_codes and search_icd_codes_detailed
\* behave exactly as if called with limit = 5: nothing is raised for the
\* limit and every index query is issued with limit 5.
C6_LimitBelowOneIsFive ==
    /\ (Flat /\ reply.limit < 1) =>
           LET five == search_icd_codes(svc.llm, store, reply.text, 5,
                                        reply.refine, reply.out, reply.faults)
           IN  /\ reply.res.ok = five.ok
               /\ reply.res.exc = five.exc
               /\ reply.res.val = five.val
               /\ reply.res.calls = five.calls
               /\ \A c \in Range(reply.res.calls) : IsQueryCall(c) => c.limit = 5
    /\ (Grouped /\ reply.limit < 1) =>
           LET five == search_icd_codes_detailed(svc.llm, store, reply.text, 5,
                                                 reply.refine, reply.out,
                                                 reply.faults)
           IN  /\ reply.res.ok = five.ok
               /\ reply.res.exc = five.exc
               /\ reply.res.val = five.val
               /\ reply.res.calls = five.calls
               /\ \A c \in Range(reply.res.calls) : IsQueryCall(c) => c.limit = 5

C6_Witness ==
    /\ Flat /\ reply.limit = 0 /\ reply.res.ok
    /\ Len(reply.res.val) = 5
    /\ \E c \in Range(reply.res.calls) : IsQueryCall(c) /\ c.limit = 5

\* C7: the list search_icd_codes returns never has more than
\* limit * (number of sub-queries actually searched) hits, a sub-query whose
\* embed or index-query step failed not counting as searched; limit is the
\* limit in force after the substitution of 5 for a value below 1.
C7_CapBySearchedQueries ==
    (Flat /\ reply.res.ok) =>
        Len(reply.res.val) <= TheLimit * Cardinality(Survivors)

C7_Witness ==
    /\ Flat /\ Len(TheQueries) = 2 /\ Cardinality(Survivors) = 1
    /\ reply.limit = 2 /\ Len(reply.res.val) = 2

\* C8: the flat result of search_icd_codes is sorted by score descending and
\* the sort is stable: hits of equal score appear in the order in which they
\* were appended (sub-queries in expansion order, within one sub-query in
\* the order the index returned them).
HasScore(s, x) == SelectSeq(s, LAMBDA h : h.score = x)

C8_StableDescendingSort ==
    (Flat /\ reply.res.ok) =>
        /\ NonIncreasing(reply.res.val)
        /\ LET expected == Appended
            IN  \A h \in Range(reply.res.val) \cup Range(expected) :
                    HasScore(reply.res.val, h.score) = HasScore(expected, h.score)

C8_Witness ==
    /\ Flat /\ reply.res.ok /\ Len(TheQueries) = 2
    /\ reply.res.val # Appended
    /\ \E i, j \in 1..Len(reply.res.val) :
           /\ i < j
           /\ reply.res.val[i].score = reply.res.val[j].score
           /\ reply.res.val[i].query = TheQueries[1]
           /\ reply.res.val[j].query = TheQueries[2]
           /\ TheQueries[1] # TheQueries[2]

\* C9: the flat merge of search_icd_codes does not deduplicate by code: a
\* code returned by several sub-queries (or several times by one) has one
\* hit per returned point in the result.
CodesOf(s) == [k \in 1..Len(s) |-> s[k].code]

AllCodes == {p.payload.code : p \in store.points}

C9_NoDedupByCode ==
    (Flat /\ reply.res.ok) =>
        LET got == CodesOf(reply.res.val)
            expected == CodesOf(Appended)
        IN  \A c \in AllCodes : Count(got, c) = Count(expected, c)

C9_Witness ==
    /\ Flat /\ reply.res.ok /\ Len(TheQueries) = 2
    /\ \E i, j \in 1..Len(reply.res.val) :
           /\ reply.res.val[i].code = reply.res.val[j].code
           /\ reply.res.val[i].query = TheQueries[1]
           /\ reply.res.val[j].query = TheQueries[2]
           /\ TheQueries[1] # TheQueries[2]

\* C10 (as stated): refine_clinical_text_with_gemini returns a sequence of
\* length at least 1 for every clinical_text, whether the LLM is configured
\* or not and whether its call succeeds or fails.
C10_AsStated ==
    Returned("refine_clinical_text_with_gemini") => Len(reply.res.val) >= 1

\* C10 (amended): refine_clinical_text_with_gemini returns a sequence of
\* length at least 1 for every non-empty clinical_text, whether the LLM is
\* configured or not and whether its call succeeds or fails; for the empty
\* clinical_text it returns the empty sequence.
C10_NonEmptyForNonEmptyText ==
    Returned("refine_clinical_text_with_gemini") =>
        IF Len(reply.text) > 0
        THEN Len(reply.res.val) >= 1
        ELSE reply.res.val = <<>>

C10_Witness ==
    /\ Returned("refine_clinical_text_with_gemini")
    /\ svc.llm /\ Len(reply.text) > 0 /\ ~reply.out.ok
    /\ reply.res.val = <<reply.text>>

Refined == Returned("refine_clinical_text_with_gemini")

\* C11 (as stated): when no LLM is configured, or the LLM call fails,
\* refine_clinical_text_with_gemini returns exactly [clinical_text] and
\* propagates no exception.
C11_AsStated ==
    (Refined /\ (~svc.llm \/ ~reply.out.ok)) =>
        (reply.res.ok /\ reply.res.val = <<reply.text>>)

\* C11 (amended): when no LLM is configured, or the LLM call fails,
\* refine_clinical_text_with_gemini returns exactly [clinical_text] for
\* every non-empty clinical_text and the empty list for the empty
\* clinical_text, and propagates no exception.
C11_FallbackToOriginalText ==
    (Refined /\ (~svc.llm \/ ~reply.out.ok)) =>
        /\ reply.res.ok
        /\ reply.res.val =
               IF Len(reply.text) > 0 THEN <<reply.text>> ELSE <<>>

C11_Witness ==
    /\ Refined /\ ~svc.llm /\ Len(reply.text) > 0
    /\ reply.res.ok /\ reply.res.val = <<reply.text>>
    /\ reply.calls = <<>>

\* C12: when the LLM responds, every phrase refine_clinical_text_with_gemini
\* returns is a non-empty string: the lines that are empty after trimming
\* bullet and dash markers, whitespace and trailing periods are discarded,
\* and if no phrase remains the result is [clinical_text].
CleanedLines(resp) ==
    LET lines == Split(Strip(resp, Whitespace), NL)
        cleaned == [i \in 1..Len(lines) |-> ParseLine(lines[i])]
    IN  SelectSeq(cleaned, LAMBDA q : Len(q) > 0)

C12_PhrasesNonEmpty ==
    (Refined /\ svc.llm /\ Len(reply.text) > 0 /\ reply.out.ok) =>
        LET phrases == CleanedLines(reply.out.content)
        IN  /\ \A i \in 1..Len(reply.res.val) : Len(reply.res.val[i]) > 0
            /\ reply.res.val =
                   IF Len(phrases) = 0 THEN <<reply.text>> ELSE phrases

\* C13: for valid input search_icd_codes_detailed returns a results_by_query
\* list with one entry per sub-query in sub-query order; the entry of a
\* sub-query whose embed and query steps succeeded has error = None and at
\* most limit codes in the order the index returned them, the entry of one
\* whose step raised has no codes and an error message, and a failing
\* sub-query does not keep later sub-queries from their entry.
CodesOfQuery(i) ==
    LET hits == HitsOf(i)
    IN  [k \in 1..Len(hits) |->
            [code |-> hits[k].code, description |-> hits[k].description,
             score |-> hits[k].score]]

C13_OneEntryPerSubQuery ==
    (Grouped /\ Len(reply.text) > 0) =>
        /\ reply.res.ok
        /\ LET queries == TheQueries
               entries == reply.res.val.results_by_query
           IN  /\ Len(entries) = Len(queries)
               /\ \A i \in 1..Len(queries) :
                      /\ entries[i].query = queries[i]
                      /\ IF Survives(i)
                         THEN /\ entries[i].error = "None"
                              /\ entries[i].codes = CodesOfQuery(i)
                              /\ Len(entries[i].codes) <= TheLimit
                         ELSE /\ entries[i].error # "None"
                              /\ entries[i].codes = <<>>

C13_Witness ==
    /\ Grouped /\ Len(TheQueries) = 2
    /\ ~Survives(1) /\ Survives(2)
    /\ reply.res.val.results_by_query[1].codes = <<>>
    /\ reply.res.val.results_by_query[1].error = "ValueError"
    /\ Len(reply.res.val.results_by_query[2].codes) = TheLimit
    /\ reply.res.val.results_by_query[2].error = "None"

\* ---------------------------------------------------------------------
\* The indexing pipeline (scripts/embedding.py)
\* ---------------------------------------------------------------------

\* the number of records of a dataset and the upload batch size
MaxRows == 3
MaxBatch == 2
\* the number of records and the cell length when only the text
\* preparation is examined
MaxPrepRows == 1
MaxCellLen == 2

\* a cell pandas read as missing (an empty CSV cell), and its str()
NaN == <<"NaN">>
NanText == <<"n", "a", "n">>

RequiredCols == {"code", "short", "long"}

Row(c, s, l) == [code |-> c, short |-> s, long |-> l]

\* a CSV file: absent, present without some column, or a table of rows
NoFile == [exists |-> FALSE, columns |-> {}, rows |-> <<>>]

Table(cols, rows) == [exists |-> TRUE, columns |-> cols, rows |-> rows]

Datasets(rowset, maxrows) ==
    {NoFile}
        \cup {Table(RequiredCols \ {c}, <<>>) : c \in RequiredCols}
        \cup {Table(RequiredCols, rows) : rows \in SeqsUpTo(rowset, maxrows)}

\* Series.fillna("")
FillNa(cell) == IF cell = NaN THEN <<>> ELSE cell

\* Series.astype(str) and str() of a cell
Str(cell) == IF cell = NaN THEN NanText ELSE cell

\* the embedding text of one row after fillna
RowText_NoFallback(row) == Strip(row.short \o <<SP>> \o row.long, Whitespace)

RowText(row) ==
    LET joined == Strip(row.short \o <<SP>> \o row.long, Whitespace) IN
    IF joined # <<>> THEN joined ELSE Str(row.code)

load_and_prepare_data(csv) ==
    IF ~csv.exists THEN Raise("FileNotFoundError")
    ELSE IF RequiredCols \ csv.columns # {} THEN Raise("ValueError")
    ELSE LET df == [i \in 1..Len(csv.rows) |->
                       Row(csv.rows[i].code, FillNa(csv.rows[i].short),
                           FillNa(csv.rows[i].long))]
         IN Return([df |-> df,
                    texts |-> [i \in 1..Len(df) |-> RowText(df[i])]])

\* the embedding models: the default one is the model the service loads,
\* the alternative one has another dimension
DEFAULT_MODEL == "sentence-transformers/all-mpnet-base-v2"
ALT_MODEL == "sentence-transformers/all-MiniLM-L6-v2"

ModelVocab(model_name) == IF model_name = DEFAULT_MODEL THEN Vocab ELSE <<"a">>

\* fixed-point unit length
UnitScale == 10

ISqrt(n) == CHOOSE r \in 0..n : r * r <= n /\ (r + 1) * (r + 1) > n

\* normalize_embeddings=True: the zero vector stays zero
Normalize(v) ==
    LET n2 == Dot(v, v) IN
    IF n2 = 0 THEN v
    ELSE LET norm == ISqrt(n2 * UnitScale * UnitScale) IN
         [i \in 1..Len(v) |-> (v[i] * UnitScale * UnitScale) \div norm]

Encode(model_name, text) ==
    LET vocab == ModelVocab(model_name) IN
    Normalize([i \in 1..Len(vocab) |-> Count(text, vocab[i])])

generate_embeddings(texts, model_name, fault) ==
    IF fault THEN Raise("RuntimeError")
    ELSE Return([embeddings |-> [i \in 1..Len(texts) |-> Encode(model_name, texts[i])],
                 embedding_dim |-> Len(ModelVocab(model_name))])

\* the faults one run can meet: at most one, at a named step; batch is the
\* number of the upsert that fails (a transient failure: only that one
\* attempt fails)
NoFault == [step |-> "none", batch |-> 0]

StepFault(s) == [step |-> s, batch |-> 0]

UpsertFault(k) == [step |-> "upsert", batch |-> k]

\* variant: the payload keys are short_description and long_description
PointStruct_DescriptionKeys(i, row, v) ==
    [id |-> i, vector |-> v,
     payload |-> [code |-> Str(row.code), short_description |-> Str(row.short),
                  long_description |-> Str(row.long)]]

PointStruct(i, row, v) ==
    [id |-> i, vector |-> v,
     payload |-> [code |-> Str(row.code), short |-> Str(row.short),
                  long |-> Str(row.long)]]

\* the result of one pipeline step: its outcome, the store it leaves and
\* the store calls it issued
Step(r, st, calls) == [res |-> r, store |-> st, calls |-> calls]

create_qdrant_collection(st, dimension, answer, fault) ==
    LET listed == <<Call("get_collections", <<>>, 0)>>
        deleted == listed \o <<Call("delete_collection", <<>>, 0)>>
        fresh == [exists |-> TRUE, dim |-> dimension, points |-> {}]
        Create(before, calls) ==
            IF fault.step = "create_collection"
            THEN Step(Return(<<>>), before,
                      calls \o <<Call("create_collection", <<>>, dimension)>>)
            ELSE Step(Return(<<>>), fresh,
                      calls \o <<Call("create_collection", <<>>, dimension)>>)
    IN
    IF fault.step = "get_collections" THEN Step(Return(<<>>), st, listed)
    ELSE IF st.exists
    THEN IF answer = "yes"
         THEN IF fault.step = "delete_collection"
              THEN Step(Return(<<>>), st, deleted)
              ELSE Create(MissingStore, deleted)
         ELSE Step(Return(<<>>), st, listed)
    ELSE Create(st, listed)

\* QdrantClient.upsert: a point replaces the stored point of the same id
upsert_Append(st, points, fault) ==
    IF fault THEN Raise("ResponseHandlingException")
    ELSE IF ~st.exists THEN Raise("UnexpectedResponse")
    ELSE IF \E p \in Range(points) : Len(p.vector) # st.dim
    THEN Raise("UnexpectedResponse")
    ELSE LET top == IF st.points = {} THEN 0
                    ELSE CHOOSE m \in {q.id : q \in st.points} :
                             \A q \in st.points : q.id <= m
         IN Return([st EXCEPT !.points =
                       st.points \cup {[points[j] EXCEPT !.id = top + j] :
                                           j \in 1..Len(points)}])

upsert(st, points, fault) ==
    IF fault THEN Raise("ResponseHandlingException")
    ELSE IF ~st.exists THEN Raise("UnexpectedResponse")
    ELSE IF \E p \in Range(points) : Len(p.vector) # st.dim
    THEN Raise("UnexpectedResponse")
    ELSE Return([st EXCEPT !.points =
                    {q \in st.points : \A p \in Range(points) : p.id # q.id}
                        \cup Range(points)])

Min(a, b) == IF a <= b THEN a ELSE b

\* the loop of upload_to_qdrant from offset start; k numbers the upsert
RECURSIVE UploadFrom_DropLast(_, _, _, _, _, _, _, _)
UploadFrom_DropLast(st, df, embeddings, batch_size, fault, start, k, calls) ==
    IF start >= Len(df) THEN Step(Return(<<>>), st, calls)
    ELSE LET end == Min(start + batch_size, Len(df)) - 1
             batch_points == [j \in 1..(end - start) |->
                                 PointStruct(start + j, df[start + j],
                                             embeddings[start + j])]
             r == upsert(st, batch_points,
                         fault.step = "upsert" /\ fault.batch = k)
             issued == calls \o <<Call("upsert", batch_points, 0)>>
         IN IF ~r.ok THEN Step(r, st, issued)
            ELSE UploadFrom_DropLast(r.val, df, embeddings, batch_size, fault,
                                     start + batch_size, k + 1, issued)

RECURSIVE UploadFrom(_, _, _, _, _, _, _, _)
UploadFrom(st, df, embeddings, batch_size, fault, start, k, calls) ==
    IF start >= Len(df) THEN Step(Return(<<>>), st, calls)
    ELSE LET end == Min(start + batch_size, Len(df))
             batch_points == [j \in 1..(end - start) |->
                                 PointStruct(start + j, df[start + j],
                                             embeddings[start + j])]
             r == upsert(st, batch_points,
                         fault.step = "upsert" /\ fault.batch = k)
             issued == calls \o <<Call("upsert", batch_points, 0)>>
         IN IF ~r.ok THEN Step(r, st, issued)
            ELSE UploadFrom(r.val, df, embeddings, batch_size, fault,
                            start + batch_size, k + 1, issued)

upload_to_qdrant(st, df, embeddings, batch_size, fault) ==
    UploadFrom(st, df, embeddings, batch_size, fault, 0, 1, <<>>)

\* verify_upload: reads the collection, any error is printed
verify_upload(st) == Step(Return(<<>>), st, <<Call("get_collection", <<>>, 0)>>)

\* variant: the collection is set up before the dataset is read
main_SetupFirst(st, csv, model_name, batch_size, answer, fault) ==
    LET created == create_qdrant_collection(st, Len(ModelVocab(model_name)),
                                            answer, fault)
        loaded == load_and_prepare_data(csv)
    IN
    IF ~loaded.ok THEN Step(loaded, created.store, created.calls)
    ELSE LET emb == generate_embeddings(loaded.val.texts, model_name,
                                        fault.step = "embed") IN
    IF ~emb.ok THEN Step(emb, created.store, created.calls)
    ELSE IF fault.step = "connect" THEN Step(Return(<<>>), st, <<>>)
    ELSE LET uploaded == upload_to_qdrant(created.store, loaded.val.df,
                                          emb.val.embeddings, batch_size, fault)
             calls == created.calls \o uploaded.calls
         IN IF ~uploaded.res.ok THEN Step(uploaded.res, uploaded.store, calls)
            ELSE Step(Return(<<>>), uploaded.store,
                      calls \o verify_upload(uploaded.store).calls)

\* one run of the script on the collection the service reads; an uncaught
\* exception ends the process
main(st, csv, model_name, batch_size, answer, fault) ==
    LET loaded == load_and_prepare_data(csv) IN
    IF ~loaded.ok THEN Step(loaded, st, <<>>)
    ELSE LET emb == generate_embeddings(loaded.val.texts, model_name,
                                        fault.step = "embed") IN
    IF ~emb.ok THEN Step(emb, st, <<>>)
    ELSE IF fault.step = "connect" THEN Step(Return(<<>>), st, <<>>)
    ELSE LET created == create_qdrant_collection(st, emb.val.embedding_dim,
                                                 answer, fault)
             uploaded == upload_to_qdrant(created.store, loaded.val.df,
                                          emb.val.embeddings, batch_size, fault)
             calls == created.calls \o uploaded.calls
         IN IF ~uploaded.res.ok THEN Step(uploaded.res, uploaded.store, calls)
            ELSE Step(Return(<<>>), uploaded.store,
                      calls \o verify_upload(uploaded.store).calls)

\* ---------------------------------------------------------------------
\* Runs of the indexing pipeline

Valid(csv) == csv.exists /\ RequiredCols \subseteq csv.columns

\* the operator is asked only when the collection exists; "no" stands for
\* every answer other than "yes"
Answers(st, csv) == IF st.exists /\ Valid(csv) THEN {"yes", "no"} ELSE {"no"}

FaultSteps ==
    {"embed", "connect", "get_collections", "delete_collection",
     "create_collection"}

NumBatches(n, batch_size) == (n + batch_size - 1) \div batch_size

Faults(csv, batch_size) ==
    IF ~Valid(csv) THEN {NoFault}
    ELSE {NoFault} \cup {StepFault(s) : s \in FaultSteps}
             \cup {UpsertFault(k) :
                       k \in 1..NumBatches(Len(csv.rows), batch_size)}

RowA == Row(<<"a">>, <<"a">>, NaN)
RowB == Row(<<"b">>, NaN, <<"b">>)

IndexRows == {RowA, RowB}

BatchSizes == 1..MaxBatch

Index(models, datasets, batch_sizes) ==
    /\ pc = "idle"
    /\ \E csv \in datasets, model_name \in models, batch_size \in batch_sizes :
        \E answer \in Answers(store, csv), fault \in Faults(csv, batch_size) :
            LET run == main(store, csv, model_name, batch_size, answer, fault) IN
            /\ store' = run.store
            /\ reply' = [op |-> "main", csv |-> csv, model |-> model_name,
                         batch_size |-> batch_size, answer |-> answer,
                         fault |-> fault, before |-> store,
                         res |-> run.res, calls |-> run.calls]
    /\ pc' = "returned"
    /\ UNCHANGED svc

InitIndex ==
    /\ svc = NoService
    /\ store = MissingStore
    /\ pc = "idle"
    /\ reply = NoReply

IndexRun == Index({DEFAULT_MODEL}, Datasets(IndexRows, MaxRows), BatchSizes)

NextIndex ==
    \/ IndexRun
    \/ Deliver

SpecIndex == InitIndex /\ [][NextIndex]_vars

\* ---------------------------------------------------------------------
\* The text preparation alone

Cells == {NaN} \cup (SeqsUpTo(TextChars, MaxCellLen) \ {<<>>})

CodeCells == {NaN, <<"a">>, <<SP>>}

PrepRows == {Row(c, s, l) : c \in CodeCells, s \in Cells, l \in Cells}

InitPrepare ==
    /\ svc = NoService
    /\ store = MissingStore
    /\ pc = "idle"
    /\ reply = NoReply

Prepare ==
    /\ pc = "idle"
    /\ \E csv \in Datasets(PrepRows, MaxPrepRows) :
        reply' = [op |-> "load_and_prepare_data", csv |-> csv,
                  res |-> load_and_prepare_data(csv)]
    /\ pc' = "returned"
    /\ UNCHANGED <<svc, store>>

NextPrepare ==
    \/ Prepare
    \/ Deliver

SpecPrepare == InitPrepare /\ [][NextPrepare]_vars

\* ---------------------------------------------------------------------
\* The service over a collection the pipeline built

InitDim ==
    /\ svc = NoService
    /\ store = MissingStore
    /\ pc = "idle"
    /\ reply = NoReply

Reindex ==
    Index({DEFAULT_MODEL, ALT_MODEL},
          {Table(RequiredCols, <<RowA>>), Table(RequiredCols, <<RowB, RowA>>)},
          {1})

NextDim ==
    \/ Reindex
    \/ Construct
    \/ SearchIcdCodes
    \/ Deliver

SpecDim == InitDim /\ [][NextDim]_vars

-----------------------------------------------------------------------------
\* Vocabulary of the pipeline properties

Ran == Returned("main")

\* the upsert calls of the run, in the order they were issued
Upserts == SelectSeq(reply.calls, LAMBDA c : c.fn = "upsert")

\* the embedding text of a record of the dataset as read
Joined(r) == Strip(FillNa(r.short) \o <<SP>> \o FillNa(r.long), Whitespace)

TextOf(r) == IF Joined(r) # <<>> THEN Joined(r) ELSE Str(r.code)

\* the point the run derives from the record at position i of the dataset
PointOf(i) ==
    [id |-> i,
     vector |-> Encode(reply.model, TextOf(reply.csv.rows[i])),
     payload |-> [code |-> Str(reply.csv.rows[i].code),
                  short |-> FillNa(reply.csv.rows[i].short),
                  long |-> FillNa(reply.csv.rows[i].long)]]

\* the upload ran to its end: main went on to verify_upload
Uploaded ==
    /\ Ran
    /\ reply.res.ok
    /\ Len(reply.calls) > 0
    /\ reply.calls[Len(reply.calls)].fn = "get_collection"

\* C14: when the target collection already exists at build time, an
\* indexing run either issues no upsert at all or deletes and recreates the
\* collection before uploading; it never upserts into the pre-existing
\* contents.
C14_NoMergeIntoExisting ==
    (Ran /\ reply.before.exists) =>
        LET names == CallNames(reply.calls) IN
        \/ \A k \in 1..Len(names) : names[k] # "upsert"
        \/ /\ reply.fault.step # "delete_collection"
           /\ \E i, j \in 1..Len(names) :
                /\ i < j
                /\ names[i] = "delete_collection"
                /\ names[j] = "create_collection"
                /\ \A k \in 1..Len(names) : names[k] = "upsert" => j < k

\* C15: a single transient upsert failure does not abort the run: the
\* failed batch is retried and the run completes.
C15_TransientUpsertFailureRetried ==
    (Ran /\ reply.fault.step = "upsert") => reply.res.ok

\* C16: if a required column is missing or embedding raises, the run
\* aborts having issued no store call, with the vector store unchanged.
C16_NoStoreCallBeforeEmbedding ==
    (Ran /\ (~Valid(reply.csv) \/ reply.fault.step = "embed")) =>
        /\ ~reply.res.ok
        /\ \A k \in 1..Len(reply.calls) :
               reply.calls[k].fn \notin
                   {"delete_collection", "create_collection", "upsert"}
        /\ store = reply.before

C16_Witness ==
    /\ Ran
    /\ reply.fault.step = "embed"
    /\ reply.answer = "yes"
    /\ reply.before.points # {}
    /\ reply.res.exc = "RuntimeError"
    /\ store = reply.before

\* C17: when the upload returns normally, the upserts are contiguous
\* ascending batches of exactly batch_size points except possibly the
\* last, every id in 1..n is upserted exactly once, and point i carries
\* the vector and the code/short/long payload of the record at position i.
C17_DenseIdsInBatches ==
    Uploaded =>
        LET ups == Upserts
            n == Len(reply.csv.rows)
            b == reply.batch_size
            sent == Concat([k \in 1..Len(ups) |-> ups[k].arg])
        IN
        /\ Len(sent) = n
        /\ \A i \in 1..n : sent[i] = PointOf(i)
        /\ \A k \in 1..Len(ups) :
               /\ Len(ups[k].arg) >= 1
               /\ k < Len(ups) => Len(ups[k].arg) = b
               /\ Len(ups[k].arg) <= b
        /\ \A i \in 1..n : PointOf(i) \in store.points

C17_Witness ==
    /\ Uploaded
    /\ Len(reply.csv.rows) = 3
    /\ reply.batch_size = 2
    /\ Len(Upserts) = 2
    /\ Len(Upserts[1].arg) = 2
    /\ Len(Upserts[2].arg) = 1
    /\ Upserts[2].arg[1].id = 3

\* C18: re-uploading batches into a collection that already holds their
\* points leaves the collection's contents unchanged, and a whole run over
\* a collection holding exactly the dataset's points reproduces them.
C18_ReuploadIsNoOp ==
    LET ups == Upserts
        held == \A k \in 1..Len(ups) : Range(ups[k].arg) \subseteq reply.before.points
        whole == {PointOf(i) : i \in 1..Len(reply.csv.rows)}
    IN
    /\ (Ran /\ reply.before.exists /\ reply.answer = "no"
            /\ Len(ups) > 0 /\ held) => store = reply.before
    /\ (Uploaded /\ reply.before.exists /\ reply.fault = NoFault
            /\ reply.before.points = whole) => store = reply.before

C18_Witness ==
    /\ Uploaded
    /\ reply.before.exists
    /\ reply.answer = "no"
    /\ Len(Upserts) = 2
    /\ \A k \in 1..2 : Range(Upserts[k].arg) \subseteq reply.before.points
    /\ store = reply.before

\* C19: for every record the embedding text is the trimmed concatenation
\* short + ' ' + long with missing short/long taken as empty, or the code
\* string when that concatenation is empty, and it is never empty.
C19_TextNeverEmpty ==
    (Returned("load_and_prepare_data") /\ Valid(reply.csv)) =>
        /\ reply.res.ok
        /\ Len(reply.res.val.texts) = Len(reply.csv.rows)
        /\ \A i \in 1..Len(reply.csv.rows) :
               /\ reply.res.val.texts[i] = TextOf(reply.csv.rows[i])
               /\ reply.res.val.texts[i] # <<>>

C19_Witness ==
    /\ Returned("load_and_prepare_data")
    /\ reply.csv.rows = <<Row(<<"a">>, NaN, <<SP>>)>>
    /\ reply.res.ok
    /\ reply.res.val.texts = <<<<"a">>>>

\* C20: a query vector whose length differs from the collection's
\* dimensionality makes search_icd_codes fail: the error reaches the
\* caller instead of a normal result.
C20_DimensionMismatchIsFatal ==
    Flat =>
        LET mismatched ==
                {i \in 1..Len(TheQueries) :
                    /\ reply.faults[i] = "ok"
                    /\ Embedding(i).ok
                    /\ store.exists
                    /\ Len(Embedding(i).val) # store.dim}
        IN mismatched # {} => ~reply.res.ok

-----------------------------------------------------------------------------
\* a stored vector is of unit length up to the truncation of the fixed-point
\* components; a query vector, whose components are exact, is of unit
\* length when its squared norm is 1
StoredUnit(v) ==
    /\ Dot(v, v) <= UnitScale * UnitScale
    /\ Dot(v, v) >= (UnitScale - 1) * (UnitScale - 1)

QueryUnit(v) == Dot(v, v) = 1

\* C21: the offline and the online embedding path normalise alike: every
\* vector stored in the collection and every vector used to query it is of
\* unit length.
C21_BothPathsUnitNormalized ==
    /\ \A p \in store.points : StoredUnit(p.vector)
    /\ Flat => \A i \in 1..Len(TheQueries) :
                   Embedding(i).ok => QueryUnit(Embedding(i).val)

-----------------------------------------------------------------------------
\* ---------------------------------------------------------------------
\* The MCP server's suggest_icd_codes tool (openehr_mcp_server.py)
\* ---------------------------------------------------------------------

\* the largest limit the tool hands to the search
MaxToolLimit == 20

Max(a, b) == IF a >= b THEN a ELSE b

\* variant: only the upper clamp
ClampLimit_NoFloor(limit) == Min(limit, MaxToolLimit)

\* limit=max(1, min(limit, 20))
ClampLimit(limit) == Max(1, Min(limit, MaxToolLimit))

\* limits on both sides of the two clamps
ToolLimits == {-1, 0, 1, 2, MaxToolLimit, MaxToolLimit + 1}

\* what a construction attempt meets: whether the model loads, whether the
\* store answers, and whether a Gemini key and client are there
Env(m, r, g) == [model_ok |-> m, reachable |-> r, llm_ready |-> g]

\* the model load fails, the store is unreachable, or the service is built
\* without or with an LLM
Envs == {Env(FALSE, TRUE, FALSE), Env(TRUE, FALSE, FALSE),
         Env(TRUE, TRUE, FALSE), Env(TRUE, TRUE, TRUE)}

\* MedicalCodingService(gemini_api_key=gemini_key)
MedicalCodingService(env) ==
    IF ~env.model_ok THEN Raise("OSError")
    ELSE IF ~env.reachable THEN Raise("ConnectionError")
    ELSE Return([built |-> TRUE, llm |-> env.llm_ready])

\* the module globals medical_coding_service (built, llm) and
\* medical_coding_service_failed
NoServer == [built |-> FALSE, llm |-> FALSE, failed |-> FALSE]

\* the globals after the call, whether a construction was attempted, and
\* whether a service is returned
Got(s, attempted) == [svc |-> s, attempted |-> attempted, service |-> s.built]

\* variant: a failed construction is attempted again
get_medical_coding_service_RetryAfterFailure(s, env) ==
    IF ~s.built
    THEN LET made == MedicalCodingService(env) IN
         IF made.ok
         THEN Got([built |-> TRUE, llm |-> made.val.llm, failed |-> s.failed], TRUE)
         ELSE Got([s EXCEPT !.failed = TRUE], TRUE)
    ELSE Got(s, FALSE)

get_medical_coding_service(s, env) ==
    IF s.failed THEN Got(s, FALSE)
    ELSE IF ~s.built
    THEN LET made == MedicalCodingService(env) IN
         IF made.ok
         THEN Got([built |-> TRUE, llm |-> made.val.llm, failed |-> s.failed], TRUE)
         ELSE Got([s EXCEPT !.failed = TRUE], TRUE)
    ELSE Got(s, FALSE)

\* the text the tool returns: its opening words, what follows them, and the
\* numbered code lines
Message(lead, detail, results) ==
    [lead |-> lead, detail |-> detail, results |-> results]

ErrorMessage(detail) == Message("Error:", detail, <<>>)

CodeLines(results) ==
    [k \in 1..Len(results) |->
        [code |-> results[k].code, description |-> results[k].description,
         score |-> results[k].score]]

\* the outcome of one tool call: the globals it leaves, whether it
\* attempted a construction, the search it ran (if any) with the limit it
\* passed, and the returned text
ToolResult(s, attempted, searched, passed, search, msg) ==
    [svc |-> s, attempted |-> attempted, searched |-> searched,
     passed |-> passed, search |-> search, msg |-> msg]

NoSearch == [ok |-> TRUE, exc |-> "", val |-> <<>>]

openehr_suggest_icd_codes(s, st, clinical_text, limit, use_gemini, env, out, faults) ==
    IF Len(clinical_text) = 0
    THEN ToolResult(s, FALSE, FALSE, 0, NoSearch,
                    ErrorMessage("Please provide valid clinical text"))
    ELSE LET got == get_medical_coding_service(s, env) IN
    IF ~got.service
    THEN ToolResult(got.svc, got.attempted, FALSE, 0, NoSearch,
                    ErrorMessage("Medical coding service not available."))
    ELSE LET passed == ClampLimit(limit)
             results == search_icd_codes(got.svc.llm, st, clinical_text, passed,
                                         use_gemini, out, faults)
         IN
         IF ~results.ok
         THEN ToolResult(got.svc, got.attempted, TRUE, passed, results,
                         ErrorMessage("Search failed - " \o results.exc))
         ELSE IF Len(results.val) = 0
         THEN ToolResult(got.svc, got.attempted, TRUE, passed, results,
                         Message("No ICD-10 codes found for:", "", <<>>))
         ELSE ToolResult(got.svc, got.attempted, TRUE, passed, results,
                         Message("ICD-10 codes for", "Total:",
                                 CodeLines(results.val)))

\* a construction is attempted only by a call with a text, while no
\* service exists
ToolEnvs(s, clinical_text) ==
    IF s.built \/ Len(clinical_text) = 0 THEN {Env(TRUE, TRUE, TRUE)} ELSE Envs

InitServer ==
    /\ svc = NoServer
    /\ store \in Stores
    /\ pc = "idle"
    /\ reply = NoReply

SuggestIcdCodes ==
    /\ pc = "idle"
    /\ \E clinical_text \in Texts, limit \in ToolLimits, use_gemini \in BOOLEAN :
        \E env \in ToolEnvs(svc, clinical_text) :
            LET got == get_medical_coding_service(svc, env)
                llm == got.service /\ got.svc.llm
            IN
            \E out \in LlmChoices(use_gemini /\ llm /\ Len(clinical_text) > 0) :
                \E faults \in [1..Len(Queries(llm, clinical_text, use_gemini, out))
                                  -> FaultModes] :
                    \E done \in {openehr_suggest_icd_codes(
                                      svc, store, clinical_text, limit, use_gemini,
                                      env, out, faults)} :
                    /\ svc' = done.svc
                    /\ reply' = [op |-> "suggest_icd_codes",
                                 text |-> clinical_text, limit |-> limit,
                                 refine |-> use_gemini, env |-> env, out |-> out,
                                 faults |-> faults, before |-> svc,
                                 attempted |-> done.attempted,
                                 searched |-> done.searched,
                                 passed |-> done.passed,
                                 search |-> done.search,
                                 res |-> Return(done.msg)]
    /\ pc' = "returned"
    /\ UNCHANGED store

\* the client reads the tool's answer
DeliverServer ==
    /\ pc = "returned"
    /\ pc' = "idle"
    /\ reply' = NoReply
    /\ UNCHANGED <<svc, store>>

NextServer ==
    \/ SuggestIcdCodes
    \/ DeliverServer

SpecServer == InitServer /\ [][NextServer]_vars

-----------------------------------------------------------------------------
Suggested == Returned("suggest_icd_codes")

\* C22: construction of MedicalCodingService is attempted at most once per
\* process: once a service exists every later call reuses it, and once a
\* construction has failed no later call attempts one, even when the model
\* and the store have become available.
C22_ConstructionAtMostOnce ==
    Suggested =>
        /\ (reply.before.built \/ reply.before.failed) =>
               (~reply.attempted /\ svc = reply.before)
        /\ reply.attempted => (svc.built \/ svc.failed)

C22_Witness ==
    /\ Suggested
    /\ reply.before.failed
    /\ Len(reply.text) > 0
    /\ reply.env = Env(TRUE, TRUE, TRUE)
    /\ ~reply.attempted
    /\ ~svc.built
    /\ reply.res.val.detail = "Medical coding service not available."

\* C23: when the store is unreachable at construction no service exists,
\* and the tool answers with a text starting with 'Error:' instead of
\* raising; likewise when the search raises or the clinical text is
\* invalid (empty or blank).
C23_FailuresAreErrorMessages ==
    Suggested =>
        /\ reply.res.ok
        /\ (reply.attempted /\ ~reply.env.reachable) => ~svc.built
        /\ (\/ ~svc.built
            \/ Blank(reply.text)
            \/ (reply.searched /\ ~reply.search.ok)) =>
               reply.res.val.lead = "Error:"

\* C28: the limit the tool hands to search_icd_codes is
\* max(1, min(limit, 20)), lies in 1..20, is 1 for a limit of 0 or below,
\* and is the limit the search uses (the default of 5 is not substituted).
C28_ToolLimitClamped ==
    (Suggested /\ reply.searched) =>
        /\ reply.passed = (IF reply.limit < 1 THEN 1
                           ELSE IF reply.limit > 20 THEN 20 ELSE reply.limit)
        /\ reply.passed \in 1..20
        /\ reply.search.limit = reply.passed

C28_Witness ==
    /\ Suggested
    /\ reply.searched
    /\ reply.limit = 0
    /\ reply.passed = 1
    /\ reply.search.limit = 1
    /\ Len(reply.search.val) = 1
    /\ Len(reply.res.val.results) = 1

-----------------------------------------------------------------------------
\* the calls issued by the operation that has just returned
IssuedCalls ==
    IF reply.op = "none" THEN <<>>
    ELSE IF reply.op \in {"search_icd_codes", "search_icd_codes_detailed"}
    THEN reply.res.calls
    ELSE reply.calls

\* a call to the vector store: neither the local embedding nor the LLM
StoreCall(c) == c.fn \notin {"text_to_embedding", "llm.invoke"}

ReadOnlyCalls ==
    \A c \in Range(IssuedCalls) :
        StoreCall(c) => c.fn \in {"get_collections", "query_points"}

\* C24: over any sequence of constructions and searches the only store
\* operations issued are get_collections and query_points, and every step
\* leaves the collection (points, payloads, configuration) as it was.
C24_OnlinePathReadsOnly == [][store' = store /\ ReadOnlyCalls']_vars

C24_Witness ==
    /\ Flat
    /\ store = SeededStore
    /\ \E c \in Range(reply.res.calls) : c.fn = "query_points"
    /\ Len(reply.res.val) = 2
    /\ reply.limit = 2

-----------------------------------------------------------------------------
\* a collection that exists and holds no point
EmptyStore == [exists |-> TRUE, dim |-> 2, points |-> {}]

\* C29: when the store answers but the collection does not exist,
\* construction succeeds, and every later search_icd_codes call with a
\* non-empty text returns the empty list without raising, the same value a
\* search of an empty collection returns.
C29_MissingCollectionSearchIsEmpty ==
    /\ (Returned("__init__") /\ ~store.exists /\ Len(reply.calls) = 2) =>
           (reply.res.ok /\ svc.built)
    /\ (Flat /\ ~store.exists /\ Len(reply.text) > 0) =>
           /\ reply.res.ok
           /\ reply.res.val = <<>>
           /\ LET other == search_icd_codes(svc.llm, EmptyStore, reply.text,
                                            reply.limit, reply.refine,
                                            reply.out, reply.faults)
              IN other.ok /\ other.val = reply.res.val

C29_Witness ==
    /\ Flat
    /\ svc.built
    /\ ~store.exists
    /\ reply.text = <<"a">>
    /\ reply.faults = <<"ok">>
    /\ reply.res.status = <<"query_error">>
    /\ reply.res.ok
    /\ reply.res.val = <<>>

-----------------------------------------------------------------------------
\* the tagged hits of one results_by_query entry of the detailed search
TaggedCodes(entry) ==
    [k \in 1..Len(entry.codes) |->
        [query |-> entry.query, code |-> entry.codes[k].code,
         description |-> entry.codes[k].description,
         score |-> entry.codes[k].score]]

\* C27: for the same valid input, expansion output and index responses,
\* the flat result equals the stable score-descending sort of the
\* concatenation, in sub-query order, of the detailed search's codes lists
\* tagged by sub-query, and the truncation removes nothing.
C27_FlatIsSortedDetailed ==
    (Flat /\ Len(reply.text) > 0) =>
        LET d == search_icd_codes_detailed(svc.llm, store, reply.text,
                                           reply.limit, reply.refine,
                                           reply.out, reply.faults)
        IN
        /\ d.ok
        /\ reply.res.ok
        /\ LET by == d.val.results_by_query
               tagged == Concat([i \in 1..Len(by) |-> TaggedCodes(by[i])])
           IN /\ reply.res.val = SortByScoreDesc(tagged)
              /\ Len(tagged) <= reply.res.limit * Len(d.val.refined_queries)
              /\ Len(reply.res.val) = Len(tagged)

C27_Witness ==
    /\ Flat
    /\ reply.refine
    /\ Len(reply.res.queries) = 2
    /\ reply.res.status = <<"ok", "ok">>
    /\ reply.limit = 2
    /\ Len(reply.res.val) = 4
    /\ reply.res.val[1].query # reply.res.val[2].query

-----------------------------------------------------------------------------
\* the hit search_icd_codes builds from a stored point
HitFrom(p) == FormatHit(<<>>, [id |-> p.id, score |-> 0, payload |-> p.payload])

\* C30: the payload keys the indexer writes are the keys the search reads:
\* a hit built from a point the pipeline wrote has the record's code as
\* code and the record's short description as description, never the
\* placeholder of a missing key.
C30_IndexThenSearchRoundTrip ==
    /\ Uploaded =>
           \A p \in store.points :
               p.id \in 1..Len(reply.csv.rows) =>
                   /\ {"code", "short"} \subseteq DOMAIN p.payload
                   /\ HitFrom(p).code = Str(reply.csv.rows[p.id].code)
                   /\ HitFrom(p).description = FillNa(reply.csv.rows[p.id].short)
    /\ Flat =>
           \A k \in 1..Len(reply.res.val) :
               \E p \in store.points :
                   /\ {"code", "short"} \subseteq DOMAIN p.payload
                   /\ reply.res.val[k].code = p.payload.code
                   /\ reply.res.val[k].description = p.payload.short

C30_Witness ==
    /\ Flat
    /\ store.dim = 2
    /\ Len(reply.res.val) = 1
    /\ reply.res.val[1].code = Str(RowA.code)
    /\ reply.res.val[1].description = FillNa(RowA.short)

-----------------------------------------------------------------------------
\* ---------------------------------------------------------------------
\* Repeated searches on one service object

\* variant: a search that used the LLM switches it off for later calls
AfterSearch_DropLlm(s, clinical_text, limit, use_gemini_refinement) ==
    IF use_gemini_refinement THEN [s EXCEPT !.llm = FALSE] ELSE s

\* the service object after search_icd_codes: the method assigns no
\* attribute of self and no global
AfterSearch(s, clinical_text, limit, use_gemini_refinement) == s

\* one search call with the backend responses it meets
SearchCall(t, l, r, out, faults) ==
    [text |-> t, limit |-> l, refine |-> r, out |-> out, faults |-> faults]

RunSearch(s, st, call) ==
    search_icd_codes(s.llm, st, call.text, call.limit, call.refine,
                     call.out, call.faults)

\* the searches that run between the two calls that are compared
OtherCalls ==
    {SearchCall(<<"a">>, 1, FALSE, NoLlmCall, <<"ok">>),
     SearchCall(<<"a">>, 2, TRUE, [ok |-> TRUE, content |-> <<"b">>], <<"ok">>)}

InitRepeat ==
    /\ svc = NoService
    /\ store \in Stores
    /\ pc = "idle"
    /\ reply = NoReply

\* a caller repeats a search, with the same backend responses, after
\* another search has run on the same service
SearchRepeated ==
    /\ pc = "idle"
    /\ svc.built
    /\ \E clinical_text \in Texts, limit \in Limits, use_gemini_refinement \in BOOLEAN :
        \E out \in LlmChoices(use_gemini_refinement /\ svc.llm /\ Len(clinical_text) > 0) :
            \E faults \in FaultPatterns(clinical_text, use_gemini_refinement, out),
               other \in OtherCalls :
                LET call == SearchCall(clinical_text, limit, use_gemini_refinement,
                                       out, faults)
                    s1 == AfterSearch(svc, clinical_text, limit, use_gemini_refinement)
                    s2 == AfterSearch(s1, other.text, other.limit, other.refine)
                IN
                /\ svc' = AfterSearch(s2, clinical_text, limit, use_gemini_refinement)
                /\ reply' = [op |-> "search_icd_codes twice",
                             call |-> call, other |-> other, before |-> svc,
                             first |-> RunSearch(svc, store, call),
                             between |-> RunSearch(s1, store, other),
                             second |-> RunSearch(s2, store, call)]
    /\ pc' = "returned"
    /\ UNCHANGED store

NextRepeat ==
    \/ Construct
    \/ SearchRepeated
    \/ Deliver

SpecRepeat == InitRepeat /\ [][NextRepeat]_vars

====
